---- MODULE Spec2Model ----
(***************************************************************************)
(* A model of the RAG backend: the crawler RAGService.discover_urls, the   *)
(* homepage classifier is_homepage_url, the indexing run                   *)
(* RAGService.index_website and RAGService.query (src/rag_service.py).     *)
(*                                                                         *)
(* Python strings are sequences of one-character strings, so that          *)
(* urlparse, urljoin, str.lower and str.strip are computed, not assumed.   *)
(***************************************************************************)
EXTENDS Integers, Sequences, FiniteSets, TLC

VARIABLES
    pc,               \* position of the running call: see PcValues
    op,               \* the call being served: "none", "discover", "index", "query", "homepage"
    base_url,         \* discover_urls / index_website: base_url
    max_depth,        \* discover_urls: max_depth
    to_visit,         \* discover_urls: the frontier, a list of <<url, depth>>
    visited,          \* discover_urls: visited
    discovered_urls,  \* discover_urls: discovered_urls
    fetchLog,         \* history: every requests.get of the crawl, [url, depth, ok, page]
    enqueued,         \* history: every entry ever appended to to_visit
    urls,             \* the value discover_urls returned
    collection,       \* the Chroma collection "harbor_website": a set of chunks
    query_engine,     \* RAGService.query_engine: "None" or "engine"
    urls_to_index,    \* index_website: urls_to_index
    excluded_urls,    \* index_website: excluded_urls
    successfully_indexed, \* index_website: successfully_indexed
    failed_urls,      \* index_website: failed_urls
    attempts,         \* history: every pass of the indexing loop, [url, ok]
    preRun,           \* history: the collection when the running index_website began
    pipelineCalls,    \* history: calls of query_engine.query made by the running query
    result,           \* the value the call returned
    reindexRuns,      \* history: index_website calls begun since construction
    requests,         \* history: calls served since construction (listings not counted)
    h_url,            \* is_homepage_url: url
    h_base,           \* is_homepage_url: base_url
    api_key,          \* Config.OPENAI_API_KEY: "None" (not set), "" or a key
    vector_store,     \* RAGService.vector_store: "None" or "store"
    request,          \* the HTTP request a handler of src/main.py was given
    question,         \* the argument of the running RAGService.query call
    response,         \* history: what query_engine.query answered the running query
    tasks,            \* the requests the server process has accepted: id -> [kind, at]
    loop              \* the task the event loop is running, or 0

vars == << pc, op, base_url, max_depth, to_visit, visited, discovered_urls,
           fetchLog, enqueued, urls, collection, query_engine, urls_to_index,
           excluded_urls, successfully_indexed, failed_urls, attempts, preRun,
           pipelineCalls, result, reindexRuns, requests, h_url, h_base,
           api_key, vector_store, request, question, response, tasks, loop >>

crawlVars == << base_url, max_depth, to_visit, visited, discovered_urls,
                fetchLog, enqueued, urls >>

indexVars == << urls_to_index, excluded_urls, successfully_indexed, failed_urls,
                attempts, preRun >>

homeVars == << h_url, h_base >>

\* the process and its HTTP handlers: the variables src/main.py adds
apiVars == << api_key, vector_store, request, question, response, tasks, loop >>

None == "None"

\* no URL: the value of a URL variable of a call that is not running
NoUrl == << >>

(***************************************************************************)
(* Strings                                                                 *)
(***************************************************************************)
UpperLetters == << "D", "E", "H", "I", "L", "M", "N", "O", "P", "T", "X" >>

LowerLetters == << "d", "e", "h", "i", "l", "m", "n", "o", "p", "t", "x" >>

Letters ==
    { "a", "b", "d", "e", "f", "h", "i", "l", "m", "n", "o", "p", "s", "t", "u", "x", "y" }
        \cup { UpperLetters[i] : i \in 1..Len(UpperLetters) }

\* str.lower on one character
LowerChar(c) ==
    IF \E i \in 1..Len(UpperLetters) : UpperLetters[i] = c
    THEN LowerLetters[CHOOSE i \in 1..Len(UpperLetters) : UpperLetters[i] = c]
    ELSE c

\* str.lower
Lower(s) == [i \in 1..Len(s) |-> LowerChar(s[i])]

RECURSIVE FindFrom(_, _, _)
\* the index of the first character of s at or after i that is in cs, 0 when none is
FindFrom(s, cs, i) ==
    IF i > Len(s) THEN 0 ELSE IF s[i] \in cs THEN i ELSE FindFrom(s, cs, i + 1)

\* str.find: the index of the first character of s that is in cs, 0 when none is
Find(s, cs) == FindFrom(s, cs, 1)

RECURSIVE RFindFrom(_, _, _)
\* the index of the last character of s at or before i that is in cs, 0 when none is
RFindFrom(s, cs, i) ==
    IF i < 1 THEN 0 ELSE IF s[i] \in cs THEN i ELSE RFindFrom(s, cs, i - 1)

\* str.rfind: the index of the last character of s that is in cs, 0 when none is
RFind(s, cs) == RFindFrom(s, cs, Len(s))

From(s, i) == SubSeq(s, i, Len(s))

RECURSIVE LStrip(_, _)
\* str.lstrip(c)
LStrip(s, c) == IF s # << >> /\ Head(s) = c THEN LStrip(Tail(s), c) ELSE s

RECURSIVE RStrip(_, _)
\* str.rstrip(c)
RStrip(s, c) ==
    IF s # << >> /\ s[Len(s)] = c THEN RStrip(SubSeq(s, 1, Len(s) - 1), c) ELSE s

\* str.strip(c)
Strip(s, c) == RStrip(LStrip(s, c), c)

(***************************************************************************)
(* urllib.parse                                                            *)
(***************************************************************************)
\* the position of the ":" ending a scheme, 0 when s has no scheme
SchemeEnd(s) ==
    IF Find(s, {":"}) > 1 /\ \A k \in 1..(Find(s, {":"}) - 1) : s[k] \in Letters
    THEN Find(s, {":"})
    ELSE 0

\* urlparse: the path ends at the first "?" or "#", found at k (0: at the end)
SplitPath(scheme, netloc, r, k) ==
    [ scheme |-> scheme,
      netloc |-> netloc,
      path   |-> IF k = 0 THEN r ELSE SubSeq(r, 1, k - 1),
      rest   |-> IF k = 0 THEN << >> ELSE From(r, k) ]

\* urlparse: the netloc ends at the first "/", "?" or "#", found at j (0: at the end)
SplitNetloc(scheme, r, j) ==
    IF j = 0
    THEN SplitPath(scheme, r, << >>, 0)
    ELSE SplitPath(scheme, SubSeq(r, 1, j - 1), From(r, j), Find(From(r, j), {"?", "#"}))

\* urlparse: what follows the scheme has a netloc when it starts with "//"
SplitAfterScheme(scheme, r) ==
    IF Len(r) >= 2 /\ r[1] = "/" /\ r[2] = "/"
    THEN SplitNetloc(scheme, From(r, 3), Find(From(r, 3), {"/", "?", "#"}))
    ELSE SplitPath(scheme, << >>, r, Find(r, {"?", "#"}))

\* urlparse: the scheme ends at position i (0: there is none)
SplitScheme(s, i) ==
    IF i > 0
    THEN SplitAfterScheme(Lower(SubSeq(s, 1, i - 1)), From(s, i + 1))
    ELSE SplitAfterScheme(<< >>, s)

\* urlparse(s): scheme (lowercased), netloc and path; rest is the query and fragment
urlparse(s) == SplitScheme(s, SchemeEnd(s))

\* urlsplit raises ValueError("Invalid IPv6 URL") on a netloc with one bracket only
UrlRaises(s) == (Find(urlparse(s).netloc, {"["}) # 0) # (Find(urlparse(s).netloc, {"]"}) # 0)

\* urlunparse of (scheme, netloc, path) followed by the query and fragment
urlunparse(scheme, netloc, path, rest) ==
    (IF scheme # << >> THEN scheme \o << ":" >> ELSE << >>)
        \o (IF netloc # << >> THEN << "/", "/" >> \o netloc ELSE << >>)
        \o (IF netloc # << >> /\ path # << >> /\ Head(path) # "/" THEN << "/" >> ELSE << >>)
        \o path \o rest

\* the directory of a base path: up to its last "/", found at slash (0: there is none)
DirOf(path, slash) == IF slash = 0 THEN << "/" >> ELSE SubSeq(path, 1, slash)

\* urljoin, with base parsed into b and url into u, and sch the scheme of the result
JoinParsed(base, url, b, u, sch) ==
    IF sch # b.scheme THEN url
    ELSE IF u.netloc # << >> THEN urlunparse(sch, u.netloc, u.path, u.rest)
    ELSE IF u.path = << >> THEN urlunparse(sch, b.netloc, b.path, u.rest)
    ELSE IF Head(u.path) = "/" THEN urlunparse(sch, b.netloc, u.path, u.rest)
    ELSE urlunparse(sch, b.netloc, DirOf(b.path, RFind(b.path, {"/"})) \o u.path, u.rest)

\* the scheme of a URL parsed with the default scheme `default`
SchemeOr(u, default) == IF u.scheme = << >> THEN default ELSE u.scheme

\* urljoin(base, url), for paths without "." and ".." segments
urljoin(base, url) ==
    IF base = << >> THEN url
    ELSE IF url = << >> THEN base
    ELSE JoinParsed(base, url, urlparse(base), urlparse(url),
                    SchemeOr(urlparse(url), urlparse(base).scheme))

(***************************************************************************)
(* The URLs and links of the model                                         *)
(***************************************************************************)
HTTP == << "h", "t", "t", "p" >>

HTTPS == << "h", "t", "t", "p", "s" >>

SEP == << ":", "/", "/" >>

About == << "a", "b", "o", "u", "t" >>

IndexHtml == << "i", "n", "d", "e", "x", ".", "h", "t", "m", "l" >>

INDEXHTML == << "I", "N", "D", "E", "X", ".", "H", "T", "M", "L" >>

HttpX == HTTP \o SEP \o << "x" >>

HttpsX == HTTPS \o SEP \o << "x" >>

HttpY == HTTP \o SEP \o << "y" >>

\* the list homepage_paths of is_homepage_url
homepage_paths ==
    { << >>,
      IndexHtml,
      << "i", "n", "d", "e", "x", ".", "h", "t", "m" >>,
      << "i", "n", "d", "e", "x", ".", "p", "h", "p" >>,
      << "h", "o", "m", "e", ".", "h", "t", "m", "l" >>,
      << "h", "o", "m", "e", ".", "h", "t", "m" >>,
      << "d", "e", "f", "a", "u", "l", "t", ".", "h", "t", "m", "l" >>,
      << "d", "e", "f", "a", "u", "l", "t", ".", "h", "t", "m" >> }

\* lines 168-186 with the path compared as written, not lowercased
HomepageParsed_CaseSensitive(base_parsed, url_parsed) ==
    IF base_parsed.scheme # url_parsed.scheme \/ base_parsed.netloc # url_parsed.netloc
    THEN FALSE
    ELSE Strip(url_parsed.path, "/") \in homepage_paths

\* the root path left out of the homepage paths: index files only
HomepageParsed_IndexFilesOnly(base_parsed, url_parsed) ==
    IF base_parsed.scheme # url_parsed.scheme \/ base_parsed.netloc # url_parsed.netloc
    THEN FALSE
    ELSE Strip(Lower(url_parsed.path), "/") \in homepage_paths \ { << >> }

\* is_homepage_url, lines 168-186, on the parsed URLs
HomepageParsed(base_parsed, url_parsed) ==
    IF base_parsed.scheme # url_parsed.scheme \/ base_parsed.netloc # url_parsed.netloc
    THEN FALSE
    ELSE Strip(Lower(url_parsed.path), "/") \in homepage_paths

\* is_homepage_url(url, base_url) of index_website
is_homepage_url(url, base) == HomepageParsed(urlparse(base), urlparse(url))

(***************************************************************************)
(* The site: what a page may answer                                        *)
(***************************************************************************)
hAbout == About

hIndex == << "/" >> \o INDEXHTML

hHttpsAbout == HttpsX \o << "/" >> \o About

hOther == HttpY \o << "/" >>

hSeed == HttpX

\* an href urljoin raises on: "http://["
hBad == HTTP \o SEP \o << "[" >>

\* The bodies a fetched page may have: its <a href> values and the targets of
\* its onclick="window.location.href='...'" attributes, in document order.
Pages ==
    { [anchors |-> << >>,                      onclicks |-> << >>],
      [anchors |-> << hAbout, hAbout >>,       onclicks |-> << >>],
      [anchors |-> << hIndex, hHttpsAbout >>,  onclicks |-> << >>],
      [anchors |-> << hOther >>,               onclicks |-> << hSeed >>],
      [anchors |-> << hAbout, hBad, hIndex >>, onclicks |-> << hAbout >>] }

\* the body of an answer that has none to parse
NoPage == [anchors |-> << >>, onclicks |-> << >>]

\* what requests.get may do: answer 200, answer another status, or raise
Statuses == { "200", "404", "raised" }

\* the seeds a caller passes
Seeds == { HttpX, HttpX \o << "/" >> \o About }

\* Config.BASE_URL, the configured site root (host abbreviated to x)
BASE_URL == HttpX

\* Config.MAX_DEPTH
MAX_DEPTH == 3

\* the largest max_depth a direct call of discover_urls is given
MaxDepthArg == 2

(***************************************************************************)
(* RAGService.discover_urls                                                *)
(***************************************************************************)
\* every link taken for an internal one
is_internal_Always(full_url, base) == TRUE

\* "Only follow internal links": the test of lines 111 and 124
is_internal(full_url, base) == urlparse(full_url).netloc = urlparse(base).netloc

RECURSIVE FollowLinks(_, _, _, _, _, _)
\* One for-loop over the links of the page `url` fetched at `depth`: the frontier
\* after it, and whether urljoin raised (which leaves the loop and the try block).
FollowLinks(links, url, depth, base, vis, queue) ==
    IF links = << >> THEN [queue |-> queue, raised |-> FALSE]
    ELSE IF UrlRaises(Head(links)) THEN [queue |-> queue, raised |-> TRUE]
    ELSE LET full_url == urljoin(url, Head(links))
         IN  FollowLinks(Tail(links), url, depth, base, vis,
                 IF is_internal(full_url, base) /\ full_url \notin vis
                 THEN Append(queue, << full_url, depth + 1 >>)
                 ELSE queue)

\* the body of "if depth < max_depth": the <a href> loop, then the onclick loop
ParseLinks(page, url, depth, base, vis, queue) ==
    LET a == FollowLinks(page.anchors, url, depth, base, vis, queue)
    IN  IF a.raised THEN a
        ELSE FollowLinks(page.onclicks, url, depth, base, vis, a.queue)

\* the state of a call discover_urls(base, depth) before its loop
EnterCrawl(base, depth) ==
    /\ base_url' = base
    /\ max_depth' = depth
    /\ to_visit' = << << base, 0 >> >>
    /\ visited' = {}
    /\ discovered_urls' = {}
    /\ fetchLog' = << >>
    /\ enqueued' = << << base, 0 >> >>
    /\ urls' = {}

\* the skip guard without "url in visited"
SkipEntry_DepthOnly(url, depth) == depth > max_depth

\* the skip guard of line 91
SkipEntry(url, depth) == url \in visited \/ depth > max_depth

\* the entry to skip read as to_visit[0], and left in the list
CrawlSkip_Peek ==
    /\ pc = "crawl"
    /\ to_visit # << >>
    /\ SkipEntry(Head(to_visit)[1], Head(to_visit)[2])
    /\ UNCHANGED vars

\* lines 89-92: pop an entry that is visited already or too deep
CrawlSkip ==
    /\ pc = "crawl"
    /\ to_visit # << >>
    /\ SkipEntry(Head(to_visit)[1], Head(to_visit)[2])
    /\ to_visit' = Tail(to_visit)
    /\ UNCHANGED << pc, op, base_url, max_depth, visited, discovered_urls, fetchLog,
                    enqueued, urls, collection, query_engine, indexVars,
                    pipelineCalls, result, reindexRuns, requests, homeVars, apiVars >>

\* links followed from a page at any depth
AfterFetch_AnyDepth(status, page, url, depth, queue) ==
    IF status = "200"
    THEN ParseLinks(page, url, depth, base_url, visited \cup {url}, queue).queue
    ELSE queue

\* a failed fetch ends the crawl: the rest of the frontier is dropped
AfterFetch_Abort(status, page, url, depth, queue) ==
    IF status = "200"
    THEN IF depth < max_depth
         THEN ParseLinks(page, url, depth, base_url, visited \cup {url}, queue).queue
         ELSE queue
    ELSE << >>

\* the frontier left by one fetch: the try block of lines 96-130
AfterFetch(status, page, url, depth, queue) ==
    IF status = "200" /\ depth < max_depth
    THEN ParseLinks(page, url, depth, base_url, visited \cup {url}, queue).queue
    ELSE queue

\* lines 89-130: pop an entry, mark it visited, fetch it and follow its links
CrawlFetch ==
    /\ pc = "crawl"
    /\ to_visit # << >>
    /\ LET url   == Head(to_visit)[1]
           depth == Head(to_visit)[2]
       IN  /\ ~SkipEntry(url, depth)
           /\ \E status \in Statuses, page \in Pages :
                 /\ visited' = visited \cup {url}
                 /\ fetchLog' = Append(fetchLog,
                        [url |-> url, depth |-> depth, ok |-> status = "200",
                         page |-> IF status = "200" THEN page ELSE NoPage])
                 /\ discovered_urls' =
                        IF status = "200" THEN discovered_urls \cup {url}
                        ELSE discovered_urls
                 /\ to_visit' = AfterFetch(status, page, url, depth, Tail(to_visit))
                 /\ enqueued' = enqueued \o
                        SubSeq(to_visit', Len(to_visit), Len(to_visit'))
    /\ UNCHANGED << pc, op, base_url, max_depth, urls, collection, query_engine,
                    indexVars, pipelineCalls, result, reindexRuns, requests, homeVars, apiVars >>

\* line 132: the loop ends when the frontier is empty; the list of discovered URLs
\* is returned (each once; the order of a Python set is not specified)
CrawlReturn ==
    /\ pc = "crawl"
    /\ to_visit = << >>
    /\ urls' = discovered_urls
    /\ pc' = "returned"
    /\ UNCHANGED << op, base_url, max_depth, to_visit, visited, discovered_urls,
                    fetchLog, enqueued, collection, query_engine, indexVars,
                    pipelineCalls, result, reindexRuns, requests, homeVars, apiVars >>

\* the variables of a call that is not running
NoCrawl ==
    /\ base_url = NoUrl /\ max_depth = 0 /\ to_visit = << >> /\ visited = {}
    /\ discovered_urls = {} /\ fetchLog = << >> /\ enqueued = << >> /\ urls = {}

NoIndex ==
    /\ urls_to_index = {} /\ excluded_urls = {}
    /\ successfully_indexed = 0 /\ failed_urls = << >>
    /\ attempts = << >> /\ preRun = {}

NoHome == h_url = NoUrl /\ h_base = NoUrl

\* no request is being handled, on a service that was constructed
NoRequest ==
    /\ request = None /\ question = None /\ response = None
    /\ tasks = << >> /\ loop = 0

Constructed == api_key = "sk" /\ vector_store = "store"

(***************************************************************************)
(* discover_urls called on its own, for every seed and max_depth           *)
(***************************************************************************)
InitCrawl ==
    /\ pc = "crawl" /\ op = "discover"
    /\ \E base \in Seeds, depth \in -1..MaxDepthArg :
          /\ base_url = base
          /\ max_depth = depth
          /\ to_visit = << << base, 0 >> >>
          /\ enqueued = << << base, 0 >> >>
    /\ visited = {} /\ discovered_urls = {} /\ fetchLog = << >> /\ urls = {}
    /\ collection = {} /\ query_engine = "engine"
    /\ NoIndex /\ NoHome /\ NoRequest /\ Constructed
    /\ pipelineCalls = 0 /\ result = None /\ reindexRuns = 0 /\ requests = 0

NextCrawl == CrawlSkip \/ CrawlFetch \/ CrawlReturn

SpecCrawl == InitCrawl /\ [][NextCrawl]_vars

\* the loop of discover_urls goes on while it can: no step of it waits for anything
\* but the fetch, which returns or raises within its timeout
FairCrawl == SpecCrawl /\ WF_vars(NextCrawl)

(***************************************************************************)
(* is_homepage_url called on its own, for every url and base_url           *)
(***************************************************************************)
\* the paths (with query or fragment) the classifier is tried on
HomePaths ==
    { << >>,
      << "/" >>,
      << "/" >> \o INDEXHTML,
      << "/" >> \o IndexHtml,
      << "/" >> \o About,
      << "/", "/", "H", "o", "m", "e", ".", "H", "T", "M", "/", "/" >>,
      << "/", "a", "/" >> \o IndexHtml,
      << "/" >> \o IndexHtml \o << "/", "a" >>,
      << "/", "i", "n", "d", "e", "x" >>,
      << "/", "i", "n", "d", "e", "x", ".", "P", "H", "P", "/" >>,
      << "/", "i", "n", "d", "e", "x", ".", "h", "t", "m" >>,
      << "/", "h", "o", "m", "e", ".", "h", "t", "m", "l" >>,
      << "/", "d", "e", "f", "a", "u", "l", "t", ".", "h", "t", "m" >>,
      << "/", "D", "e", "f", "a", "u", "l", "t", ".", "h", "t", "m", "l" >>,
      << "/", "d", "e", "f", "a", "u", "l", "t", ".", "p", "h", "p" >>,
      << "/", "#", "t", "o", "p" >>,
      << "/" >> \o About \o << "?", "p", "=" >> \o IndexHtml }

HomeUrls ==
    { scheme \o SEP \o netloc \o path :
        scheme \in { HTTP, HTTPS }, netloc \in { << "x" >>, << "y" >> }, path \in HomePaths }

HomeBases == { HttpX, HttpX \o << "/" >> \o About, HttpsX \o << "/" >> }

\* one call is_homepage_url(h_url, h_base)
HomepageCall ==
    /\ pc = "home_call"
    /\ result' = is_homepage_url(h_url, h_base)
    /\ pc' = "home_done"
    /\ UNCHANGED << op, crawlVars, collection, query_engine, indexVars,
                    pipelineCalls, reindexRuns, requests, homeVars, apiVars >>

InitHome ==
    /\ pc = "home_call" /\ op = "homepage"
    /\ h_url \in HomeUrls /\ h_base \in HomeBases
    /\ NoCrawl /\ NoIndex /\ NoRequest /\ Constructed
    /\ collection = {} /\ query_engine = "engine"
    /\ pipelineCalls = 0 /\ result = None /\ reindexRuns = 0 /\ requests = 0

NextHome == HomepageCall

SpecHome == InitHome /\ [][NextHome]_vars

\* the homepage aliases, spelled as stem and extension
HomepageAliases ==
    { << >> }
      \cup { << "i", "n", "d", "e", "x", "." >> \o e :
               e \in { << "h", "t", "m", "l" >>, << "h", "t", "m" >>, << "p", "h", "p" >> } }
      \cup { st \o << "." >> \o e :
               st \in { << "h", "o", "m", "e" >>, << "d", "e", "f", "a", "u", "l", "t" >> },
               e \in { << "h", "t", "m", "l" >>, << "h", "t", "m" >> } }

Slashes(n) == [i \in 1..n |-> "/"]

\* C5: is_homepage_url(url, base_url) is false when the scheme or the host (netloc) of
\* url differs from base_url's; otherwise it is true exactly when the lowercased path
\* of url is a homepage alias between any number of leading and trailing slashes.
\* The four examples of the spec come out as stated.
C5_HomepageClassifier ==
    pc = "home_done" =>
        LET u       == urlparse(h_url)
            b       == urlparse(h_base)
            low     == Lower(u.path)
            aliased == \E core \in HomepageAliases : \E i, j \in 0..Len(low) :
                           low = Slashes(i) \o core \o Slashes(j)
        IN  /\ (u.scheme # b.scheme \/ u.netloc # b.netloc) => result = FALSE
            /\ (u.scheme = b.scheme /\ u.netloc = b.netloc) => result = aliased
            /\ (h_base = HttpX /\ h_url = HttpX \o << "/" >>) => result = TRUE
            /\ (h_base = HttpX /\ h_url = HttpX \o << "/" >> \o INDEXHTML) => result = TRUE
            /\ (h_base = HttpX /\ h_url = HttpX \o << "/" >> \o About) => result = FALSE
            /\ (h_base = HttpX /\ h_url = HttpY \o << "/" >>) => result = FALSE

\* C5 witness: is_homepage_url("http://x/INDEX.HTML", "http://x") has returned true
C5_Witness ==
    /\ pc = "home_done"
    /\ h_base = HttpX
    /\ h_url = HttpX \o << "/" >> \o INDEXHTML
    /\ result = TRUE

(***************************************************************************)
(* The service: RAGService after construction, serving one call at a time  *)
(***************************************************************************)
\* the calls served after construction
MaxRequests == 1

\* the most chunks one pass of the indexing loop stores
MaxChunks == 1

\* the most source nodes a query of the model retrieves (similarity_top_k is 5)
MaxNodes == 3

\* the relevance scores of the model
Scores == { 1, 2 }

\* a chunk stored by the index_website call number `run` (0: by an earlier process)
Chunk(url, run, k) == [source_url |-> url, run |-> run, k |-> k]

\* what the persistent collection may hold when the service is constructed
PriorCollections == { {}, { Chunk(HttpX \o << "/" >> \o About, 0, 1) } }

\* the clear step of index_website, lines 142-150: every document is deleted, unless
\* collection.get or collection.delete raises, which the except clause only logs
ClearCollection(coll, outcome) == IF outcome = "cleared" THEN {} ELSE coll

ClearOutcomes == { "cleared", "raised" }

\* what the environment may give for OPENAI_API_KEY: nothing, an empty string, a key
ApiKeys == { None, "", "sk" }

\* the server process before its lifespan start-up: rag_service is None, the
\* persistent collection holds what earlier processes left
Init ==
    /\ pc = "starting" /\ op = "none"
    /\ api_key \in ApiKeys
    /\ collection \in PriorCollections
    /\ vector_store = None /\ query_engine = None
    /\ NoCrawl /\ NoIndex /\ NoHome /\ NoRequest
    /\ pipelineCalls = 0 /\ result = None /\ reindexRuns = 0 /\ requests = 0

\* a validate that accepts any environment
Validates_Always(key) == TRUE

\* Config.validate: "if not cls.OPENAI_API_KEY: raise ValueError"
Validates(key) == key # None /\ key # ""

\* lifespan start-up, RAGService.__init__: validate raises, or the Chroma client is
\* opened (which may raise) and _setup_vector_store builds the index and, through
\* _setup_query_engine, the query engine. lifespan re-raises what __init__ raised:
\* the application does not start.
Startup ==
    /\ pc = "starting"
    /\ IF Validates(api_key)
       THEN \E opened \in BOOLEAN :
               IF opened
               THEN vector_store' = "store" /\ query_engine' = "engine" /\ pc' = "idle"
               ELSE UNCHANGED << vector_store, query_engine >> /\ pc' = "failed"
       ELSE UNCHANGED << vector_store, query_engine >> /\ pc' = "failed"
    /\ UNCHANGED << op, crawlVars, collection, indexVars, pipelineCalls, result,
                    reindexRuns, requests, homeVars, api_key, request, question,
                    response, tasks, loop >>

\* the base_url a caller passes to index_website: None or a seed
IndexArgs ==
    { [is_none |-> TRUE, url |-> NoUrl] } \cup { [is_none |-> FALSE, url |-> u] : u \in Seeds }

\* index_website(arg), lines 134-156: the default base_url, the clear step,
\* _setup_vector_store, and the call of discover_urls(base_url, MAX_DEPTH)
StartIndex ==
    /\ pc = "idle"
    /\ requests < MaxRequests
    /\ \E arg \in IndexArgs, outcome \in ClearOutcomes :
          /\ EnterCrawl(IF arg.is_none THEN BASE_URL ELSE arg.url, MAX_DEPTH)
          /\ preRun' = collection
          /\ collection' = ClearCollection(collection, outcome)
    /\ query_engine' = "engine"
    /\ reindexRuns' = reindexRuns + 1
    /\ op' = "index"
    /\ pc' = "crawl"
    /\ UNCHANGED << urls_to_index, excluded_urls, successfully_indexed, failed_urls,
                    attempts, pipelineCalls, result, requests, homeVars, apiVars >>

\* every discovered URL kept for indexing
UrlsToIndex_Unfiltered(found, base) == found

\* the filter of line 188
UrlsToIndex(found, base) == { u \in found : ~is_homepage_url(u, base) }

\* the list excluded_urls of line 189
ExcludedUrls(found, base) == { u \in found : is_homepage_url(u, base) }

\* an empty list of URLs let through to the loop
NothingToIndex_Never(to_index) == FALSE

\* the test of line 196
NothingToIndex(to_index) == to_index = {}

\* index_website, lines 188-203: the homepage variants are removed; with nothing
\* left the call returns its failure result
Partition ==
    /\ pc = "returned" /\ op = "index"
    /\ urls_to_index' = UrlsToIndex(urls, base_url)
    /\ excluded_urls' = ExcludedUrls(urls, base_url)
    /\ IF NothingToIndex(urls_to_index')
       THEN /\ result' = [ success |-> FALSE,
                           message |-> "No URLs to index after excluding homepage",
                           indexed_count |-> 0 ]
            /\ pc' = "done"
       ELSE /\ result' = result
            /\ pc' = "index_loop"
    /\ successfully_indexed' = 0
    /\ failed_urls' = << >>
    /\ to_visit' = << >> /\ visited' = {} /\ discovered_urls' = {}
    /\ fetchLog' = << >> /\ enqueued' = << >>
    /\ UNCHANGED << op, base_url, max_depth, urls, collection, query_engine,
                    attempts, preRun, pipelineCalls, reindexRuns,
                    requests, homeVars, apiVars >>

\* the URLs the for-loop of line 205 has gone through
Attempted == { attempts[i].url : i \in 1..Len(attempts) }

\* what one pass of the loop may do: reader.load_data raises; it returns no
\* document; the parser or insert_nodes raises; the nodes are inserted
IndexOutcomes == { "extract_error", "empty", "insert_error", "indexed" }

\* the chunks one pass adds: its n nodes when it succeeds, and the n nodes stored
\* before insert_nodes raised
NewChunks(url, outcome, n) ==
    IF outcome \in { "indexed", "insert_error" }
    THEN { Chunk(url, reindexRuns, k) : k \in 1..n }
    ELSE {}

\* a page without content logged, and not recorded as failed
FailedAfter_EmptyForgotten(failed, url, outcome) ==
    IF outcome \in { "indexed", "empty" } THEN failed ELSE Append(failed, url)

\* failed_urls after one pass: lines 229-235
FailedAfter(failed, url, outcome) ==
    IF outcome = "indexed" THEN failed ELSE Append(failed, url)

\* successfully_indexed after one pass: line 227
IndexedAfter(count, outcome) == IF outcome = "indexed" THEN count + 1 ELSE count

\* the URL the for-loop of line 205 takes next. urls_to_index keeps the order of
\* list(discovered_urls), which Python fixes for a set without specifying it: every
\* set of URLs has one order here, and nothing depends on which.
NextUrl(remaining) == CHOOSE u \in remaining : TRUE

\* one pass of the loop of lines 205-235, on the next URL of urls_to_index
IndexUrl ==
    /\ pc = "index_loop"
    /\ urls_to_index \ Attempted # {}
    /\ \E url \in { NextUrl(urls_to_index \ Attempted) },
          outcome \in IndexOutcomes, n \in 0..MaxChunks :
          /\ outcome \in { "extract_error", "empty" } => n = 0
          /\ attempts' = Append(attempts, [url |-> url, ok |-> outcome = "indexed"])
          /\ collection' = collection \cup NewChunks(url, outcome, n)
          /\ successfully_indexed' = IndexedAfter(successfully_indexed, outcome)
          /\ failed_urls' = FailedAfter(failed_urls, url, outcome)
    /\ UNCHANGED << pc, op, crawlVars, query_engine, urls_to_index, excluded_urls,
                    preRun, pipelineCalls, result, reindexRuns, requests, homeVars, apiVars >>

\* index_website, lines 237-246: the query engine is refreshed and the counts returned
IndexFinish ==
    /\ pc = "index_loop"
    /\ urls_to_index \subseteq Attempted
    /\ query_engine' = "engine"
    /\ result' = [ success |-> TRUE,
                   message |-> << "Indexed", successfully_indexed, "out of",
                                  Cardinality(urls_to_index) >>,
                   indexed_count |-> successfully_indexed,
                   total_urls |-> Cardinality(urls_to_index),
                   failed_urls |-> failed_urls ]
    /\ pc' = "done"
    /\ UNCHANGED << op, crawlVars, collection, indexVars, pipelineCalls,
                    reindexRuns, requests, homeVars, apiVars >>

\* a discover that clears the collection before it crawls, as index_website does
StartDiscover_Clearing ==
    /\ pc = "idle"
    /\ requests < MaxRequests
    /\ \E base \in Seeds : EnterCrawl(base, MAX_DEPTH)
    /\ collection' = {}
    /\ op' = "discover"
    /\ pc' = "crawl"
    /\ UNCHANGED << query_engine, indexVars, pipelineCalls, result,
                    reindexRuns, requests, homeVars, apiVars >>

\* GET /api/discover (src/main.py): discover_urls(base_url, MAX_DEPTH)
StartDiscover ==
    /\ pc = "idle"
    /\ requests < MaxRequests
    /\ \E base \in Seeds : EnterCrawl(base, MAX_DEPTH)
    /\ op' = "discover"
    /\ pc' = "crawl"
    /\ UNCHANGED << collection, query_engine, indexVars, pipelineCalls, result,
                    reindexRuns, requests, homeVars, apiVars >>

\* GET /api/discover: the response
DiscoverRespond ==
    /\ pc = "returned" /\ op = "discover"
    /\ result' = [ success |-> TRUE, urls |-> urls, total_count |-> Cardinality(urls) ]
    /\ pc' = "done"
    /\ UNCHANGED << op, crawlVars, collection, query_engine, indexVars,
                    pipelineCalls, reindexRuns, requests, homeVars, apiVars >>

(***************************************************************************)
(* RAGService.query                                                        *)
(***************************************************************************)
\* the score of a source node that has none (NodeWithScore.score is None)
NoScore == 0

\* the lists of source nodes the query engine may answer with: matched chunks of
\* the collection, each with a score or none, at most MaxNodes of them
SourceNodes(coll) ==
    { ns \in UNION { [1..n -> [node : coll, score : Scores \cup { NoScore }]] :
                       n \in 0..MaxNodes } :
        \A i, j \in 1..Len(ns) : i # j => ns[i].node # ns[j].node }

\* what query_engine.query may do: raise, or answer with source nodes
PipelineResponses(coll) ==
    { [called |-> TRUE, raised |-> TRUE, source_nodes |-> << >>] }
      \cup { [called |-> TRUE, raised |-> FALSE, source_nodes |-> ns] :
               ns \in SourceNodes(coll) }

\* the guard of line 250
EngineMissing(engine) == engine = None

\* what the query engine does for one call of query: without an engine it is not called
EngineAnswers(engine, coll) ==
    IF EngineMissing(engine)
    THEN { [called |-> FALSE, raised |-> FALSE, source_nodes |-> << >>] }
    ELSE PipelineResponses(coll)

\* lines 263-272: one source_info per source node
SourceInfo(n) ==
    [ url |-> n.node.source_url, score |-> n.score, text_snippet |-> n.node ]

\* line 269: float(node.score) raises TypeError on a score that is None
CitationRaises(ns) == \E i \in 1..Len(ns) : ns[i].score = NoScore

RECURSIVE Unique_LastSeen(_, _)
\* the last source of every URL kept instead of the first
Unique_LastSeen(sources, seen_urls) ==
    IF sources = << >> THEN << >>
    ELSE IF \E i \in 2..Len(sources) : sources[i].url = Head(sources).url
         THEN Unique_LastSeen(Tail(sources), seen_urls)
         ELSE << Head(sources) >> \o Unique_LastSeen(Tail(sources), seen_urls)

RECURSIVE Unique(_, _)
\* lines 275-280: the first source of every URL, in the order of the list
Unique(sources, seen_urls) ==
    IF sources = << >> THEN << >>
    ELSE IF Head(sources).url \in seen_urls THEN Unique(Tail(sources), seen_urls)
    ELSE << Head(sources) >> \o Unique(Tail(sources), seen_urls \cup { Head(sources).url })

RECURSIVE InsertByScore(_, _)
\* x put into the list l, sorted by descending score, behind the elements of its score
InsertByScore(l, x) ==
    IF l = << >> THEN << x >>
    ELSE IF Head(l).score >= x.score THEN << Head(l) >> \o InsertByScore(Tail(l), x)
    ELSE << x >> \o l

RECURSIVE SortByScore(_)
\* line 283: list.sort(key=score, reverse=True), a stable sort
SortByScore(l) ==
    IF l = << >> THEN << >>
    ELSE InsertByScore(SortByScore(SubSeq(l, 1, Len(l) - 1)), l[Len(l)])

\* the result of lines 262-290 for the source nodes ns and the question q
QuerySuccess(ns, q) ==
    [ success |-> TRUE,
      response |-> IF ns = << >> THEN "Empty Response" ELSE "answer",
      sources |-> SortByScore(Unique([i \in 1..Len(ns) |-> SourceInfo(ns[i])], {})),
      question |-> q ]

\* the result of lines 251-256
NotInitialized ==
    [ success |-> FALSE,
      message |-> "RAG system not initialized. Please index content first.",
      response |-> "",
      sources |-> << >> ]

\* the exception leaves query instead of being caught
QueryError_Propagated(err) == [ raised |-> err ]

\* the result of lines 292-299 for the exception err
QueryError(err) ==
    [ success |-> FALSE,
      message |-> << "Error processing query: ", err >>,
      response |-> "",
      sources |-> << >> ]

\* RAGService.query(q), lines 248-299, for what the engine answered: without a
\* query engine the call returns at once; an exception of the engine or of the
\* citation loop is caught
QueryResult(resp, q) ==
    IF ~resp.called THEN NotInitialized
    ELSE IF resp.raised THEN QueryError("pipeline error")
    ELSE IF CitationRaises(resp.source_nodes) THEN QueryError("TypeError")
    ELSE QuerySuccess(resp.source_nodes, q)

\* the questions of the model
Questions == { "q" }

\* a direct call query(q) of the service
Query ==
    /\ pc = "idle"
    /\ requests < MaxRequests
    /\ \E q \in Questions, resp \in EngineAnswers(query_engine, collection) :
          /\ question' = q
          /\ response' = resp
          /\ pipelineCalls' = IF resp.called THEN 1 ELSE 0
          /\ result' = QueryResult(resp, q)
    /\ op' = "query"
    /\ pc' = "done"
    /\ UNCHANGED << crawlVars, collection, query_engine, indexVars, reindexRuns,
                    requests, homeVars, api_key, vector_store, request, tasks, loop >>

(***************************************************************************)
(* RAGService.get_documents                                                *)
(***************************************************************************)
\* the largest limit and offset of the model (the handler's defaults are 10 and 0)
MaxWindow == 2

\* the metadata Chroma stores with a chunk: what lines 213-216 put on its document
Metadata(c) == [ source_url |-> c.source_url, source_type |-> "web_page" ]

\* the text "unknown"
Unknown == << "u", "n", "k", "n", "o", "w", "n" >>

\* dict.get(key, default)
DictGet(d, key, default) == IF key \in DOMAIN d THEN d[key] ELSE default

\* the id Chroma gives a chunk
ChunkId(c) == << c.source_url, c.run, c.k >>

RECURSIVE StoredOrder(_)
\* the order in which collection.get lists the chunks: fixed for a collection
StoredOrder(coll) ==
    IF coll = {} THEN << >>
    ELSE LET c == CHOOSE x \in coll : TRUE
         IN  << c >> \o StoredOrder(coll \ { c })

\* collection.get(limit, offset): the rows offset+1 .. offset+limit
GetWindow(coll, limit, offset) ==
    LET rows == StoredOrder(coll)
        last == IF offset + limit < Len(rows) THEN offset + limit ELSE Len(rows)
    IN  SubSeq(rows, offset + 1, last)

\* source_url read under a key the metadata does not have
DocumentInfo_WrongKey(c) ==
    [ id |-> ChunkId(c),
      source_url |-> DictGet(Metadata(c), "url", Unknown),
      text_snippet |-> c,
      full_text |-> c,
      metadata |-> Metadata(c) ]

\* lines 336-348: the entry of one listed chunk
DocumentInfo(c) ==
    [ id |-> ChunkId(c),
      source_url |-> DictGet(Metadata(c), "source_url", Unknown),
      text_snippet |-> c,
      full_text |-> c,
      metadata |-> Metadata(c) ]

\* the result of lines 324-356
DocumentsSuccess(coll, limit, offset) ==
    LET rows == GetWindow(coll, limit, offset)
    IN  [ success |-> TRUE,
          documents |-> [i \in 1..Len(rows) |-> DocumentInfo(rows[i])],
          total_count |-> Cardinality(coll) ]

\* the result of lines 358-365
DocumentsError ==
    [ success |-> FALSE,
      message |-> "Error getting documents: error",
      documents |-> << >>,
      total_count |-> 0 ]

\* get_documents(limit, offset), lines 321-365: the window is listed, unless
\* get_collection, collection.get or collection.count raises. The call changes
\* nothing and is not counted in `requests`.
GetDocuments ==
    /\ pc = "idle"
    /\ \E limit \in 1..MaxWindow, offset \in 0..MaxWindow :
          /\ request' = [ limit |-> limit, offset |-> offset ]
          /\ \/ result' = DocumentsSuccess(collection, limit, offset)
             \/ result' = DocumentsError
    /\ op' = "documents"
    /\ pc' = "done"
    /\ UNCHANGED << crawlVars, collection, query_engine, indexVars, pipelineCalls,
                    reindexRuns, requests, homeVars, api_key, vector_store, question,
                    response, tasks, loop >>

\* the call is over: its locals are gone and the service waits for the next call
Return ==
    /\ pc = "done"
    /\ pc' = "idle" /\ op' = "none"
    /\ base_url' = NoUrl /\ max_depth' = 0 /\ to_visit' = << >> /\ visited' = {}
    /\ discovered_urls' = {} /\ fetchLog' = << >> /\ enqueued' = << >> /\ urls' = {}
    /\ urls_to_index' = {} /\ excluded_urls' = {}
    /\ successfully_indexed' = 0 /\ failed_urls' = << >>
    /\ attempts' = << >> /\ preRun' = {}
    /\ pipelineCalls' = 0 /\ result' = None
    /\ request' = None /\ question' = None /\ response' = None
    /\ requests' = IF op = "documents" THEN requests ELSE requests + 1
    /\ UNCHANGED << collection, query_engine, reindexRuns, homeVars, api_key,
                    vector_store, tasks, loop >>

Next ==
    \/ Startup
    \/ StartIndex \/ CrawlSkip \/ CrawlFetch \/ CrawlReturn \/ Partition
    \/ IndexUrl \/ IndexFinish
    \/ StartDiscover \/ DiscoverRespond
    \/ Query
    \/ GetDocuments
    \/ Return

Spec == Init /\ [][Next]_vars

(***************************************************************************)
(* query called on its own, over a collection with several chunks          *)
(***************************************************************************)
\* a collection earlier runs left: two chunks of one page and one of another
QueryCollections ==
    { { Chunk(HttpX \o << "/" >> \o About, 0, 1),
        Chunk(HttpX \o << "/" >> \o About, 0, 2),
        Chunk(HttpsX \o << "/" >> \o About, 0, 1) } }

InitQuery ==
    /\ pc = "idle" /\ op = "none"
    /\ collection \in QueryCollections
    /\ query_engine = "engine"
    /\ NoCrawl /\ NoIndex /\ NoHome /\ NoRequest /\ Constructed
    /\ pipelineCalls = 0 /\ result = None /\ reindexRuns = 0 /\ requests = 0

NextQuery == Query

SpecQuery == InitQuery /\ [][NextQuery]_vars

(***************************************************************************)
(* POST /api/chat                                                          *)
(***************************************************************************)
\* the messages arrays of the model: dicts with a role and, mostly, a content
ChatMessages ==
    { << >>,
      << [role |-> "user", content |-> "q1"] >>,
      << [role |-> "user", content |-> "q1"],
         [role |-> "assistant", content |-> "a"],
         [role |-> "user", content |-> "q2"] >>,
      << [role |-> "user", content |-> "q1"],
         [role |-> "assistant", content |-> "a"] >>,
      << [role |-> "system", content |-> "s"] >>,
      << [role |-> "user", content |-> ""] >>,
      << [role |-> "user", content |-> "q1"], [role |-> "user"] >> }

\* the JSON bodies of the model: question absent, empty or given; messages absent
\* or given
ChatBodies ==
    { [given |-> g, question |-> q, messages |-> m] :
        g \in { {}, { "question" }, { "messages" }, { "question", "messages" } },
        q \in { "", "q0" }, m \in ChatMessages }

\* the body as sent: a field that is not given has its model default
WellFormed(body) ==
    /\ "question" \notin body.given => body.question = ""
    /\ "messages" \notin body.given => body.messages = << >>

\* QueryRequest, lines 53-56: question is a required str, messages is optional
Validated(body) == "question" \in body.given

RECURSIVE LastUserContent(_, _)
\* lines 133-136: the content of the last message with role "user", or the question
\* as it was when there is none
LastUserContent(messages, q) ==
    IF messages = << >> THEN q
    ELSE LET msg == messages[Len(messages)]
         IN  IF DictGet(msg, "role", None) = "user"
             THEN DictGet(msg, "content", "")
             ELSE LastUserContent(SubSeq(messages, 1, Len(messages) - 1), q)

\* lines 130-136: the question the handler derives
DerivedQuestion(body) ==
    IF body.question = "" /\ "messages" \in body.given /\ body.messages # << >>
    THEN LastUserContent(body.messages, body.question)
    ELSE body.question

\* lines 146-158: the HTTP response for the result of query
ChatResponse(r) ==
    IF r.success
    THEN [ status |-> 200, success |-> TRUE, response |-> r.response,
           sources |-> r.sources, question |-> r.question ]
    ELSE [ status |-> 500, detail |-> r.message ]

\* the request is parsed into a QueryRequest; a body that does not validate is
\* answered 422 and the handler is not called
ChatValidate ==
    /\ pc = "request" /\ op = "chat"
    /\ IF Validated(request)
       THEN pc' = "handler" /\ result' = result
       ELSE pc' = "done" /\ result' = [ status |-> 422, detail |-> "Field required" ]
    /\ UNCHANGED << op, crawlVars, collection, query_engine, indexVars, pipelineCalls,
                    reindexRuns, requests, homeVars, apiVars >>

\* chat(request), lines 120-158: without a question the request is answered 400;
\* otherwise query is called with it
Chat ==
    /\ pc = "handler" /\ op = "chat"
    /\ LET q == DerivedQuestion(request)
       IN  IF q = ""
           THEN /\ result' = [ status |-> 400, detail |-> "No question provided" ]
                /\ UNCHANGED << question, response, pipelineCalls >>
           ELSE \E resp \in EngineAnswers(query_engine, collection) :
                   /\ question' = q
                   /\ response' = resp
                   /\ pipelineCalls' = IF resp.called THEN 1 ELSE 0
                   /\ result' = ChatResponse(QueryResult(resp, q))
    /\ pc' = "done"
    /\ UNCHANGED << op, crawlVars, collection, query_engine, indexVars, reindexRuns,
                    requests, homeVars, api_key, vector_store, request, tasks, loop >>

InitChat ==
    /\ pc = "request" /\ op = "chat"
    /\ request \in { b \in ChatBodies : WellFormed(b) }
    /\ question = None /\ response = None /\ tasks = << >> /\ loop = 0
    /\ collection \in PriorCollections
    /\ query_engine = "engine"
    /\ NoCrawl /\ NoIndex /\ NoHome /\ Constructed
    /\ pipelineCalls = 0 /\ result = None /\ reindexRuns = 0 /\ requests = 0

NextChat == ChatValidate \/ Chat

SpecChat == InitChat /\ [][NextChat]_vars

\* the positions of the messages with role "user"
UserMessages(body) ==
    { i \in 1..Len(body.messages) : DictGet(body.messages[i], "role", None) = "user" }

\* the body carries no question: the field is absent or empty
NoQuestion(body) == "question" \notin body.given \/ body.question = ""

\* C15: when the body of POST /api/chat carries no question and its messages hold a
\* message with role "user", query is called with the content of the last such
\* message; when there is no question and none can be derived (no user message, or
\* its content is empty), the request is answered 400 and query is not called.
C15_ChatQuestion ==
    (op = "chat" /\ pc = "done" /\ NoQuestion(request)) =>
        LET users == UserMessages(request)
            last  == CHOOSE i \in users : \A j \in users : j <= i
            text  == IF users = {} THEN ""
                     ELSE DictGet(request.messages[last], "content", "")
        IN  IF text # ""
            THEN question = text /\ pipelineCalls = 1
            ELSE result.status = 400 /\ question = None /\ pipelineCalls = 0

(***************************************************************************)
(* The server process: the handlers of src/main.py on the event loop       *)
(***************************************************************************)
\* the requests the model lets the process accept
MaxTasks == 3

\* the endpoints that use the service
Kinds == { "chat", "index", "stats", "documents", "discover" }

\* what a handler does, in order, from its first line to its response
Steps(kind) ==
    CASE kind = "chat"      -> << "guard", "query", "respond" >>
      [] kind = "index"     -> << "guard", "clear", "crawl", "insert", "respond" >>
      [] kind = "stats"     -> << "guard", "count", "respond" >>
      [] kind = "documents" -> << "guard", "get", "respond" >>
      [] kind = "discover"  -> << "guard", "crawl", "respond" >>

\* the index handler awaiting its crawl, as if run_indexing ran in a thread pool
AwaitPoints_Background(kind) == IF kind = "index" THEN { "crawl" } ELSE {}

\* the steps at which a handler awaits, and so gives the event loop to another task:
\* every handler is an "async def" whose body holds no await, and RAGService is
\* synchronous code called directly
AwaitPoints(kind) == {}

\* a request arrives and its handler is scheduled; this can happen at any time
Accept ==
    /\ pc = "serving"
    /\ Len(tasks) < MaxTasks
    /\ \E kind \in Kinds : tasks' = Append(tasks, [kind |-> kind, at |-> 0])
    /\ UNCHANGED << pc, op, crawlVars, collection, query_engine, indexVars,
                    pipelineCalls, result, reindexRuns, requests, homeVars, api_key,
                    vector_store, request, question, response, loop >>

\* the event loop runs one step of a task: the task it is running or, when it runs
\* none, any task that has not finished. The task keeps the loop until it awaits or
\* returns.
Step ==
    /\ pc = "serving"
    /\ \E id \in 1..Len(tasks) :
          /\ loop \in { 0, id }
          /\ tasks[id].at < Len(Steps(tasks[id].kind))
          /\ LET kind == tasks[id].kind
                 at   == tasks[id].at + 1
             IN  /\ tasks' = [tasks EXCEPT ![id].at = at]
                 /\ loop' = IF at = Len(Steps(kind)) \/ Steps(kind)[at] \in AwaitPoints(kind)
                            THEN 0 ELSE id
    /\ UNCHANGED << pc, op, crawlVars, collection, query_engine, indexVars,
                    pipelineCalls, result, reindexRuns, requests, homeVars, api_key,
                    vector_store, request, question, response >>

InitServer ==
    /\ pc = "serving" /\ op = "none"
    /\ collection = {} /\ query_engine = "engine"
    /\ NoCrawl /\ NoIndex /\ NoHome /\ NoRequest /\ Constructed
    /\ pipelineCalls = 0 /\ result = None /\ reindexRuns = 0 /\ requests = 0

NextServer == Accept \/ Step

SpecServer == InitServer /\ [][NextServer]_vars

\* the handler of task id has started and has not returned
Executing(id) == tasks[id].at >= 1 /\ tasks[id].at < Len(Steps(tasks[id].kind))

\* the index handler of task id is between its clear step and its return
Mutating(id) ==
    /\ tasks[id].kind = "index"
    /\ tasks[id].at >= 2 /\ tasks[id].at < Len(Steps("index"))

\* C14: within the server process no two indexing runs are between their clear step
\* and their return at once, no chat, stats or documents handler is executing while
\* an indexing run is there, and no two handlers are ever executing at once: a
\* handler that has started returns before another starts.
C14_HandlersSerialized ==
    \A i, j \in 1..Len(tasks) :
        i # j =>
           /\ ~(Mutating(i) /\ Mutating(j))
           /\ ~(Mutating(i) /\ Executing(j)
                  /\ tasks[j].kind \in { "chat", "stats", "documents" })
           /\ ~(Executing(i) /\ Executing(j))

\* C14 witness: a second POST /api/index and a chat request have arrived while an
\* indexing run is inserting; neither has started
C14_Witness ==
    /\ Len(tasks) = 3
    /\ tasks[1].kind = "index" /\ tasks[1].at = 4 /\ loop = 1
    /\ tasks[2].kind = "index" /\ tasks[2].at = 0
    /\ tasks[3].kind = "chat" /\ tasks[3].at = 0

(***************************************************************************)
(* Claims about discover_urls                                              *)
(***************************************************************************)
\* the URLs the crawl has put in its frontier, fetched, discovered or returned
CrawlUrls ==
    { enqueued[i][1] : i \in 1..Len(enqueued) }
        \cup { fetchLog[i].url : i \in 1..Len(fetchLog) }
        \cup discovered_urls \cup urls

Crawling == pc \in { "crawl", "returned" }

\* C1 as stated: every URL the crawl enqueues, fetches or returns has the scheme and
\* the host of the seed.
C1_SameOrigin ==
    Crawling =>
        \A u \in CrawlUrls :
            /\ urlparse(u).scheme = urlparse(base_url).scheme
            /\ urlparse(u).netloc = urlparse(base_url).netloc

\* C1 amended: every URL the crawl enqueues, fetches or returns has the network
\* location (netloc) of the seed; the scheme is not compared.
C1_SameNetloc ==
    Crawling =>
        \A u \in CrawlUrls : urlparse(u).netloc = urlparse(base_url).netloc

\* C1 witness: a crawl has returned a URL of the seed's netloc under another scheme
C1_Witness ==
    /\ pc = "returned"
    /\ \E u \in urls :
          /\ urlparse(u).netloc = urlparse(base_url).netloc
          /\ urlparse(u).scheme # urlparse(base_url).scheme

\* C2: no URL is fetched twice in one crawl, and none at a depth above max_depth.
C2_FetchedOnceWithinDepth ==
    Crawling =>
        /\ \A i, j \in 1..Len(fetchLog) : fetchLog[i].url = fetchLog[j].url => i = j
        /\ \A i \in 1..Len(fetchLog) : fetchLog[i].depth <= max_depth

\* C2 witness: a URL that was put in the frontier twice has been fetched
C2_Witness ==
    /\ pc = "returned"
    /\ \E i, j \in 1..Len(enqueued) :
          /\ i < j
          /\ enqueued[i][1] = enqueued[j][1]
          /\ \E k \in 1..Len(fetchLog) : fetchLog[k].url = enqueued[i][1]

\* C3: on a finite site, with every fetch returning or raising, discover_urls
\* empties its frontier and returns.
C3_Terminates == <>(pc = "returned")

\* C3 witness: a crawl that fetched three pages and skipped an entry has returned
C3_Witness ==
    /\ pc = "returned"
    /\ Len(fetchLog) >= 3
    /\ Len(enqueued) > Len(fetchLog)

\* C4: a failed fetch leaves its URL out of the discovered set and does not end the
\* crawl: when discover_urls returns, the frontier is empty, every entry it ever held
\* was fetched or skipped as visited or too deep, and the URLs returned are exactly
\* those that answered 200.
C4_FailureDoesNotAbort ==
    /\ Crawling =>
          \A i \in 1..Len(fetchLog) :
              ~fetchLog[i].ok => fetchLog[i].url \notin discovered_urls
    /\ pc = "returned" =>
          /\ to_visit = << >>
          /\ \A i \in 1..Len(enqueued) :
                \/ enqueued[i][2] > max_depth
                \/ \E k \in 1..Len(fetchLog) : fetchLog[k].url = enqueued[i][1]
          /\ urls = { fetchLog[i].url : i \in { k \in 1..Len(fetchLog) : fetchLog[k].ok } }

\* C4 witness: a crawl has returned a URL that it fetched after a fetch that failed
C4_Witness ==
    /\ pc = "returned"
    /\ \E i, j \in 1..Len(fetchLog) :
          /\ i < j
          /\ ~fetchLog[i].ok
          /\ fetchLog[j].ok
          /\ fetchLog[j].url \in urls

(***************************************************************************)
(* Claims about index_website and query                                    *)
(***************************************************************************)
\* the chunks the running index_website has inserted
RunChunks == { c \in collection : c.run = reindexRuns }

\* the index_website call has passed its filter (line 188)
Filtered == op = "index" /\ pc \in { "index_loop", "done" }

Range(seq) == { seq[i] : i \in 1..Len(seq) }

\* the index_website call is at the head of its loop, before the first pass, or has
\* returned without one: the state the filter of lines 188-189 leaves
JustFiltered == Filtered /\ attempts = << >>

\* C6: in a reindex run no URL the homepage classifier accepts for the run's base_url
\* is attempted, counted in total_urls, listed in failed_urls or the source_url of a
\* chunk the run inserts: the loop works on the discovered URLs the classifier
\* rejects, and on nothing else.
C6_HomepageNeverIndexed ==
    Filtered =>
        /\ JustFiltered =>
              /\ \A u \in urls_to_index : ~is_homepage_url(u, base_url)
              /\ \A u \in urls \ urls_to_index : is_homepage_url(u, base_url)
        /\ urls_to_index \subseteq urls
        /\ excluded_urls = urls \ urls_to_index
        /\ Attempted \cup Range(failed_urls) \cup { c.source_url : c \in RunChunks }
              \subseteq urls_to_index
        /\ (pc = "done" /\ result.success) =>
              /\ result.total_urls = Cardinality(urls \ excluded_urls)
              /\ result.indexed_count <= result.total_urls

\* C6 witness: a run that discovered a homepage variant has indexed another URL
C6_Witness ==
    /\ Filtered /\ pc = "done"
    /\ result.success
    /\ result.indexed_count >= 1
    /\ excluded_urls # {}

\* C7: when no discovered URL is left after the homepage variants are removed,
\* index_website returns success = false, indexed_count = 0 and a message, and makes
\* no pass of the indexing loop.
C7_NothingToIndex ==
    (Filtered /\ urls_to_index = {}) =>
        /\ pc = "done"
        /\ result.success = FALSE
        /\ result.indexed_count = 0
        /\ result.message = "No URLs to index after excluding homepage"
        /\ attempts = << >>
        /\ RunChunks = {}

\* C7 witness: a run that discovered homepage variants only has returned
C7_Witness ==
    /\ Filtered /\ pc = "done"
    /\ urls # {}
    /\ urls_to_index = {}
    /\ excluded_urls = urls
    /\ result.success = FALSE

\* C8: a run with a URL to index returns success = true after one pass per URL,
\* whatever the passes did: indexed_count is the number of passes that succeeded,
\* failed_urls lists the URLs of the others, once each, and
\* indexed_count + len(failed_urls) = total_urls.
C8_PerUrlOutcomes ==
    (Filtered /\ pc = "done" /\ urls_to_index # {}) =>
        LET okPasses  == { i \in 1..Len(attempts) : attempts[i].ok }
            badPasses == { i \in 1..Len(attempts) : ~attempts[i].ok }
        IN  /\ result.success = TRUE
            /\ Attempted = urls_to_index
            /\ Len(attempts) = Cardinality(urls_to_index)
            /\ result.indexed_count = Cardinality(okPasses)
            /\ Range(result.failed_urls) = { attempts[i].url : i \in badPasses }
            /\ Len(result.failed_urls) = Cardinality(badPasses)
            /\ result.total_urls = Cardinality(urls_to_index)
            /\ result.indexed_count + Len(result.failed_urls) = result.total_urls

\* C8 witness: a run of three URLs has returned with the first pass failed and the
\* two after it succeeded
C8_Witness ==
    /\ Filtered /\ pc = "done"
    /\ Len(attempts) = 3
    /\ ~attempts[1].ok /\ attempts[2].ok /\ attempts[3].ok
    /\ result.indexed_count = 2
    /\ result.failed_urls = << attempts[1].url >>

\* C9: in a reindex run no chunk that was in the collection before the run is in it
\* once the run has inserted a chunk or has returned.
C9_ClearedBeforeRepopulated ==
    (op = "index" /\ (pc = "done" \/ RunChunks # {})) => collection \cap preRun = {}

\* C10: a query before any index is built (no reindex has run, the collection is
\* empty) returns success = false with an empty response and no sources, and does not
\* call the query engine.
C10_QueryBeforeIndex ==
    (op = "query" /\ pc = "done" /\ reindexRuns = 0 /\ collection = {}) =>
        /\ result.success = FALSE
        /\ result.response = ""
        /\ result.sources = << >>
        /\ pipelineCalls = 0

(***************************************************************************)
(* Claims about start-up                                                   *)
(***************************************************************************)
\* C16: without OPENAI_API_KEY (not set, or empty) the service fails at start-up:
\* construction raises before a vector store is opened, the application never
\* reaches the state in which it serves, and no request is ever handled.
C16_NoKeyNoService ==
    (api_key \in { None, "" }) =>
        /\ pc \in { "starting", "failed" }
        /\ vector_store = None /\ query_engine = None
        /\ op = "none" /\ requests = 0 /\ result = None
        /\ reindexRuns = 0 /\ collection \in PriorCollections

\* C16 witness: start-up has failed for want of the key
C16_Witness == api_key = None /\ pc = "failed"

(***************************************************************************)
(* Claims about query                                                      *)
(***************************************************************************)
\* a query call has returned
Queried == op = "query" /\ pc = "done"

\* the position in ns of the first source node of the URL u
FirstOf(ns, u) ==
    CHOOSE i \in 1..Len(ns) :
        /\ ns[i].node.source_url = u
        /\ \A j \in 1..(i - 1) : ns[j].node.source_url # u

\* C11: the sources of a successful query hold one citation for every URL of the
\* matched chunks and no more, the citation of a URL has the score and snippet of the
\* first matched chunk of that URL in the order the pipeline gave, and the list is in
\* order of non-increasing score.
C11_SourcesUniqueFirstSorted ==
    (Queried /\ "success" \in DOMAIN result /\ result.success) =>
        LET ns  == response.source_nodes
            src == result.sources
        IN  /\ \A i, j \in 1..Len(src) : i # j => src[i].url # src[j].url
            /\ { src[i].url : i \in 1..Len(src) }
                 = { ns[i].node.source_url : i \in 1..Len(ns) }
            /\ \A i \in 1..Len(src) :
                  /\ src[i].score = ns[FirstOf(ns, src[i].url)].score
                  /\ src[i].text_snippet = ns[FirstOf(ns, src[i].url)].node
            /\ \A i, j \in 1..Len(src) : i < j => src[i].score >= src[j].score

\* C11 witness: three matched chunks, the first and the last of one URL with the
\* higher score on the last, gave two citations, the other URL's first
C11_Witness ==
    /\ Queried /\ result.success
    /\ Len(response.source_nodes) = 3
    /\ response.source_nodes[1].node.source_url = response.source_nodes[3].node.source_url
    /\ response.source_nodes[1].score < response.source_nodes[3].score
    /\ response.source_nodes[2].score > response.source_nodes[1].score
    /\ Len(result.sources) = 2
    /\ result.sources[2].url = response.source_nodes[1].node.source_url

\* C12: query returns a result whatever the pipeline does: when the query engine
\* raises, or a citation cannot be built, the result has success = false, a message
\* with the error text, an empty response and no sources.
C12_QueryNeverRaises ==
    Queried =>
        /\ "success" \in DOMAIN result
        /\ (response.called /\ (response.raised
               \/ \E i \in 1..Len(response.source_nodes) :
                     response.source_nodes[i].score = NoScore)) =>
              /\ result.success = FALSE
              /\ result.message[1] = "Error processing query: "
              /\ result.message[2] =
                    (IF response.raised THEN "pipeline error" ELSE "TypeError")
              /\ result.response = ""
              /\ result.sources = << >>

\* C12 witness: a source node without a score made the citation loop raise, and the
\* query returned its error result
C12_Witness ==
    /\ Queried
    /\ ~response.raised
    /\ \E i \in 1..Len(response.source_nodes) : response.source_nodes[i].score = NoScore
    /\ result.success = FALSE

(***************************************************************************)
(* Claims about get_documents                                              *)
(***************************************************************************)
\* a get_documents call has returned
Listed == op = "documents" /\ pc = "done"

\* the entries of the listing are distinct chunks of the collection, each with the
\* source_url it was inserted with, as many as the window holds; a window over the
\* whole collection lists every chunk
RoundTrip ==
    LET docs == result.documents
        n    == Cardinality(collection)
        left == IF n > request.offset THEN n - request.offset ELSE 0
    IN  /\ Len(docs) = (IF request.limit < left THEN request.limit ELSE left)
        /\ \A i, j \in 1..Len(docs) : i # j => docs[i].id # docs[j].id
        /\ \A i \in 1..Len(docs) :
              \E c \in collection :
                 /\ docs[i].id = << c.source_url, c.run, c.k >>
                 /\ docs[i].source_url = c.source_url
        /\ (request.offset = 0 /\ request.limit >= n) =>
              \A c \in collection :
                 \E i \in 1..Len(docs) :
                    /\ docs[i].id = << c.source_url, c.run, c.k >>
                    /\ docs[i].source_url = c.source_url

\* C13 as claimed: every get_documents call lists the chunks of its window with the
\* source_url they were inserted with, and its total_count is the number of chunks of
\* the collection, whatever limit and offset.
C13_RoundTripAlways ==
    Listed => (RoundTrip /\ result.total_count = Cardinality(collection))

\* C13: every get_documents call that succeeds lists the chunks of its window with
\* the source_url they were inserted with, and its total_count is the number of
\* chunks of the collection, whatever limit and offset; a call whose access to the
\* collection raises returns success = false, no documents and total_count = 0.
C13_RoundTripOnSuccess ==
    Listed =>
        IF result.success
        THEN RoundTrip /\ result.total_count = Cardinality(collection)
        ELSE result.documents = << >> /\ result.total_count = 0

\* C13 witness: after a reindex run, a listing of two entries out of more holds a
\* chunk the run inserted, under its URL
C13_Witness ==
    /\ Listed /\ result.success
    /\ reindexRuns = 1
    /\ Len(result.documents) = 2
    /\ result.total_count > 2
    /\ \E i \in 1..2, c \in collection :
          /\ c.run = 1
          /\ result.documents[i].id = << c.source_url, c.run, c.k >>
          /\ result.documents[i].source_url = c.source_url

(***************************************************************************)
(* Claims about the order and the reach of the crawl                       *)
(***************************************************************************)
\* the links of a fetched page that point into the seed's site: the hrefs and
\* onclick targets urljoin can resolve, of the seed's netloc
SiteLinks(e) ==
    IF ~e.ok THEN {}
    ELSE { u \in { urljoin(e.url, h) :
                     h \in { l \in Range(e.page.anchors) \cup Range(e.page.onclicks) :
                               ~UrlRaises(l) } } :
             urlparse(u).netloc = urlparse(base_url).netloc }

RECURSIVE Within(_)
\* the URLs at most k links from the seed, through pages that answered 200
Within(k) ==
    IF k = 0 THEN { base_url }
    ELSE LET near == Within(k - 1)
         IN  near \cup UNION { SiteLinks(fetchLog[i]) :
                                 i \in { j \in 1..Len(fetchLog) : fetchLog[j].url \in near } }

SameOrigin(u) ==
    /\ urlparse(u).scheme = urlparse(base_url).scheme
    /\ urlparse(u).netloc = urlparse(base_url).netloc

\* C17: the crawl is breadth-first: the depths of the fetches never decrease and a
\* URL is fetched at its least link distance from the seed; when the crawl returns,
\* every same-origin URL within max_depth links of the seed through pages that
\* answered 200 has been fetched and, having answered 200, is returned.
C17_BreadthFirstComplete ==
    (Crawling /\ max_depth >= 0) =>
        /\ \A i, j \in 1..Len(fetchLog) : i < j => fetchLog[i].depth <= fetchLog[j].depth
        /\ pc = "returned" =>
              /\ \A i \in 1..Len(fetchLog) :
                    /\ fetchLog[i].url \in Within(fetchLog[i].depth)
                    /\ fetchLog[i].depth > 0 =>
                          fetchLog[i].url \notin Within(fetchLog[i].depth - 1)
              /\ \A u \in Within(max_depth) :
                    SameOrigin(u) =>
                       \E i \in 1..Len(fetchLog) :
                          /\ fetchLog[i].url = u
                          /\ fetchLog[i].ok => u \in urls

\* C18: with max_depth >= 0 every entry put in the frontier has a depth from 0 to
\* max_depth: an entry other than the seed's is one more than the depth of a page
\* fetched below max_depth, and with max_depth = 0 the seed alone is fetched.
C18_FrontierWithinDepth ==
    (Crawling /\ max_depth >= 0) =>
        /\ \A i \in 1..Len(enqueued) :
              /\ enqueued[i][2] >= 0 /\ enqueued[i][2] <= max_depth
              /\ i > 1 =>
                    \E k \in 1..Len(fetchLog) :
                       /\ fetchLog[k].ok
                       /\ fetchLog[k].depth < max_depth
                       /\ enqueued[i][2] = fetchLog[k].depth + 1
        /\ max_depth = 0 =>
              /\ Len(enqueued) = 1
              /\ \A k \in 1..Len(fetchLog) : fetchLog[k].url = base_url

\* C18 witness: a page fetched at depth max_depth answered 200 with links, and the
\* crawl has returned
C18_Witness ==
    /\ pc = "returned"
    /\ max_depth >= 1
    /\ \E k \in 1..Len(fetchLog) :
          /\ fetchLog[k].depth = max_depth
          /\ fetchLog[k].ok
          /\ fetchLog[k].page.anchors # << >>
          /\ \A i \in 1..Len(enqueued) : enqueued[i][2] <= fetchLog[k].depth

SeedIsHomepage == Strip(Lower(urlparse(base_url).path), "/") \in HomepageAliases

SameContent(a, b) ==
    \A u \in { c.source_url : c \in a \cup b } :
        Cardinality({ c \in a : c.source_url = u })
            = Cardinality({ c \in b : c.source_url = u })

\* C20: a reindex run without a failed URL, on a collection that holds what a run of
\* the same site left (for each URL as many chunks as this run inserts), leaves the
\* collection with the same source_urls and the same number of chunks for each.
C20_ReindexNoDuplicates ==
    (Filtered /\ pc = "done" /\ result.success /\ result.failed_urls = << >>
       /\ SameContent(preRun, RunChunks)) =>
        SameContent(collection, preRun)

(***************************************************************************)
(* Claims about what the calls leave in the collection                     *)
(***************************************************************************)
\* C21: no step of a discover call (its start, its fetches and skips, the return of
\* the crawl, its response) changes the collection, the vector store with its index,
\* or the query engine, and none runs the indexing pipeline: no chunk is inserted
\* or deleted.
C21_DiscoverOnlyReads ==
    [][ op' = "discover" =>
           /\ collection' = collection
           /\ vector_store' = vector_store
           /\ query_engine' = query_engine
           /\ reindexRuns' = reindexRuns
           /\ attempts' = attempts ]_vars

\* C21 witness: a discover call on a service whose collection holds a chunk has
\* answered with a URL it found
C21_Witness ==
    /\ op = "discover" /\ pc = "done"
    /\ collection # {}
    /\ result.success /\ result.total_count >= 1

\* C22: a reindex run that returns the "no URLs to index" failure leaves the
\* collection empty: what was indexed before the run is gone although the run
\* reports success = false.
C22_NoUrlsLeavesEmpty ==
    (Filtered /\ pc = "done" /\ ~result.success) => collection = {}

\* C23: when a reindex run returns, every chunk in the collection has a source_url
\* that a pass of the run indexed successfully, and no URL of failed_urls is the
\* source_url of a chunk.
C23_ChunksOnlyOfIndexed ==
    (Filtered /\ pc = "done" /\ result.success) =>
        LET indexed == { attempts[i].url : i \in { j \in 1..Len(attempts) : attempts[j].ok } }
        IN  /\ \A c \in collection : c.source_url \in indexed
            /\ \A c \in collection : c.source_url \notin Range(result.failed_urls)

====
